---- MODULE Spec2Model ----
(***************************************************************************)
(* A model of package xzwriter (src/xzwriter.go): an io.WriteCloser that   *)
(* pipes the bytes written to it through an external "xz" process whose    *)
(* standard output is the wrapped writer.                                  *)
(*                                                                         *)
(* The caller is one sequential process (pc).  The xz process, the         *)
(* goroutine os/exec starts to watch the context, and the garbage          *)
(* collector running the finalizer are concurrent with it.                 *)
(***************************************************************************)
EXTENDS Integers, Sequences, FiniteSets, TLC

\* ------------------------------------------------------------------ bounds
NBytes == 2          \* byte values 0 .. NBytes-1
MaxWriteLen == 2     \* longest argument of one Write call
MaxTotal == 2        \* most bytes accepted by the pipe over a run
PipeCap == 1         \* capacity of the OS pipe to the child's stdin
MaxCloses == 2       \* Close calls made on one writer

Byte == 0 .. (NBytes - 1)

SeqsUpTo(n) == UNION { [1 .. k -> Byte] : k \in 0 .. n }

Min(a, b) == IF a < b THEN a ELSE b

\* ------------------------------------------------------------------ state
VARIABLES
    pc,          \* the caller: "start", "failed", "panicked", "idle",
                 \* "writing", "closePipe", "closeWait", "closeRet", "done"
    ctx,         \* the context passed in: "none", "nil", "blank", "live", "canceled"
    viaNew,      \* the factory called was New (TRUE) or NewWithContext (FALSE)
    newErr,      \* the error the factory returned
    ctxAtNew,    \* the context's state when the factory was called
    newIn,       \* what the factory met: the executable found, the pipe
                 \* created, fork/exec working
    proc,        \* cmd.Process: "none", "running", "exited" (not reaped), "reaped"
    exit,        \* how the process ended: "none", "ok", "fail", "killed"
    watcher,     \* os/exec's context goroutine: "none", "watching", "done"
    killSent,    \* the watcher signalled the process after it had ended
    pipe,        \* xz.pipe, the caller's end: "none", "open", "closed"
    pipeBuf,     \* bytes in the OS pipe, not yet read by xz
    xzIn,        \* bytes xz has read from its standard input
    dest,        \* what xz has written to the wrapped writer w
    w,           \* the wrapped writer itself: "open", "closedByCaller",
                 \* "closedByXZWriter"
    asked,       \* every byte passed to Write while the pipe was open, in order
    wbuf,        \* bytes of the Write in progress not yet accepted
    wn,          \* bytes of the Write in progress accepted so far (0 when
                 \* no Write is in progress)
    written,     \* every byte the pipe accepted, in order
    lastWrite,   \* (n, err) of the last Write that returned
    wcall,       \* the last Write call: the length of p, and whether the
                 \* process had already ended when it was made
    finalizer,   \* runtime finalizer on the XZWriter: "none", "set"
    site,        \* the file:line the finalizer closure captured
    reachable,   \* the caller still holds the *XZWriter
    leaks,       \* how often the finalizer has panicked
    leakSite,    \* the site the panic message named
    halted,      \* the program has crashed (panic in the finalizer)
    errPipe,     \* errPipe of the Close in progress / last Close
    errWait,     \* errWait of the Close in progress / last Close
    firstErrPipe,\* what the first close of the pipe returned
    result,      \* what the last Close returned
    closes,      \* Close calls that have returned
    didClosePipe,\* the Close in progress / last Close called pipe.Close
    didWait,     \* the Close in progress / last Close called cmd.Wait
    openAtClose, \* the pipe was open when the last Close was called
    ctxAtClose,  \* the context's state when the last Close was called
    exitAtClose  \* how the process had ended when the last Close was called

vars == <<pc, ctx, viaNew, newErr, ctxAtNew, newIn, proc, exit, watcher, killSent, pipe, pipeBuf,
          xzIn, dest, w, asked, wbuf, wn, written, lastWrite, wcall, finalizer, site, reachable,
          leaks, leakSite, halted, errPipe, errWait, firstErrPipe, result,
          closes, didClosePipe, didWait, openAtClose, ctxAtClose, exitAtClose>>

procVars == <<proc, exit, watcher, killSent>>
xzIOVars == <<pipeBuf, xzIn, dest>>
writeVars == <<asked, wbuf, wn, written, lastWrite, wcall>>
guardVars == <<finalizer, site, reachable, leaks, leakSite, halted>>
closeVars == <<errPipe, errWait, firstErrPipe, result, closes, didClosePipe,
               didWait, openAtClose, ctxAtClose, exitAtClose>>
newVars == <<viaNew, newErr, ctxAtNew, newIn>>

\* ------------------------------------------------------- the xz compressor
\* xz is opaque: a stream header, one block per input byte, a stream footer.
Hdr == <<"hdr">>
Ftr == <<"ftr">>
Enc(b) == (b + 1) % NBytes
Dec(e) == (e + NBytes - 1) % NBytes
Blk(b) == <<"blk", Enc(b)>>

Compress(B) == <<Hdr>> \o [i \in 1 .. Len(B) |-> Blk(B[i])] \o <<Ftr>>

WellFormed(d) ==
    /\ Len(d) >= 2
    /\ d[1] = Hdr
    /\ d[Len(d)] = Ftr
    /\ \A i \in 2 .. (Len(d) - 1) : Len(d[i]) = 2 /\ d[i][1] = "blk"

\* xz --decompress: the input restored, or a failure on a truncated stream.
Decompress(d) ==
    IF WellFormed(d)
    THEN [ok |-> TRUE, data |-> [i \in 1 .. (Len(d) - 2) |-> Dec(d[i + 1][2])]]
    ELSE [ok |-> FALSE, data |-> <<>>]

\* What xz emits for one more input byte: the header goes out before the
\* first block.
Emit(out, b) == (IF out = <<>> THEN <<Hdr>> ELSE out) \o <<Blk(b)>>
Finish(out) == (IF out = <<>> THEN <<Hdr>> ELSE out) \o <<Ftr>>

\* ------------------------------------------------------------- call stack
\* The frames runtime.Caller sees from inside activateSharpEdgedFinalizer,
\* innermost first; Caller(0) is the function calling runtime.Caller.
Stack(byNew) ==
    IF byNew
    THEN <<"activateSharpEdgedFinalizer", "NewWithContext", "New", "caller", "callerOfCaller">>
    ELSE <<"activateSharpEdgedFinalizer", "NewWithContext", "caller", "callerOfCaller">>

Caller(stack, skip) == stack[skip + 1]

\* A test that never recognises the context New passes.
calledByNew_Never(c) == FALSE

\* Lines 104-107: only blankContext carries the package's private key.
calledByNew(c) == c = "blank"

\* A finalizer that skips the same number of frames for both factories.
Skip_Fixed(c) == 2

\* Lines 92-95.
Skip(c) == IF calledByNew(c) THEN 3 ELSE 2

\* ------------------------------------------------------------------- Init
Init ==
    /\ pc = "start"
    /\ ctx = "none"
    /\ viaNew = FALSE
    /\ newErr = "none"
    /\ ctxAtNew = "none"
    /\ newIn = [lookOk |-> TRUE, pipeOk |-> TRUE, startOk |-> TRUE]
    /\ proc = "none"
    /\ exit = "none"
    /\ watcher = "none"
    /\ killSent = FALSE
    /\ pipe = "none"
    /\ pipeBuf = <<>>
    /\ xzIn = <<>>
    /\ dest = <<>>
    /\ w = "open"
    /\ asked = <<>>
    /\ wbuf = <<>>
    /\ wn = 0
    /\ written = <<>>
    /\ lastWrite = [n |-> 0, err |-> "none"]
    /\ wcall = [len |-> 0, dead |-> FALSE]
    /\ finalizer = "none"
    /\ site = "none"
    /\ reachable = FALSE
    /\ leaks = 0
    /\ leakSite = "none"
    /\ halted = FALSE
    /\ errPipe = "none"
    /\ errWait = "none"
    /\ firstErrPipe = "none"
    /\ result = "none"
    /\ closes = 0
    /\ didClosePipe = FALSE
    /\ didWait = FALSE
    /\ openAtClose = FALSE
    /\ ctxAtClose = "none"
    /\ exitAtClose = "none"

\* ---------------------------------------------------------------- factory
\* A factory that does not look at what Start returned.
NewError_IgnoreStart(c, lookOk, pipeOk, startOk) ==
    IF ~pipeOk THEN "ErrStdinPipe" ELSE "nil"

\* The error NewWithContext returns.  StdinPipe fails first; then Start
\* fails with the LookPath error exec.CommandContext recorded, with ctx.Err()
\* when the context is already done, or with the fork/exec error.
NewError(c, lookOk, pipeOk, startOk) ==
    IF ~pipeOk THEN "ErrStdinPipe"
    ELSE IF ~lookOk THEN "ErrNotFound"
    ELSE IF c = "canceled" THEN "ErrCtx"
    ELSE IF ~startOk THEN "ErrStart"
    ELSE "nil"

\* A factory that leaves a process behind whatever it returns.
ProcAfterNew_Always(err) == "running"

\* A process exists only when Start returned nil.
ProcAfterNew(err) == IF err = "nil" THEN "running" ELSE "none"

\* A factory that never sets the finalizer.
GuardAfterNew_Never(err) == "none"

\* A factory that sets the finalizer before it knows that xz has started.
GuardAfterNew_Early(err) == "set"

\* activateSharpEdgedFinalizer is reached only after Start returned nil.
GuardAfterNew(err) == IF err = "nil" THEN "set" ELSE "none"

\* Lines 91-100: the finalizer is set, its closure holding the file:line of
\* the frame `skip` levels up.
activateSharpEdgedFinalizer(c, byNew) ==
    [finalizer |-> "set", site |-> Caller(Stack(byNew), Skip(c))]

\* Line 59: w becomes the standard output of the process and stays the
\* caller's.
StdoutAfterNew(d) == d

Factory(c, byNew, lookOk, pipeOk, startOk) ==
    LET err == NewError(c, lookOk, pipeOk, startOk) IN
    /\ pc = "start"
    /\ viaNew' = byNew
    /\ ctxAtNew' = c
    /\ newIn' = [lookOk |-> lookOk, pipeOk |-> pipeOk, startOk |-> startOk]
    /\ ctx' = c
    /\ IF c = "nil"
       THEN /\ pc' = "panicked"
            /\ newErr' = "none"
            /\ UNCHANGED <<procVars, pipe, guardVars>>
       ELSE /\ newErr' = err
            /\ pc' = IF err = "nil" THEN "idle" ELSE "failed"
            /\ proc' = ProcAfterNew(err)
            /\ watcher' = IF ProcAfterNew(err) = "running" THEN "watching" ELSE "none"
            /\ pipe' = IF err = "nil" THEN "open" ELSE "none"
            /\ finalizer' = GuardAfterNew(err)
            /\ site' = IF GuardAfterNew(err) = "set"
                       THEN activateSharpEdgedFinalizer(c, byNew).site
                       ELSE "none"
            /\ reachable' = (err = "nil")
            /\ UNCHANGED <<exit, killSent, leaks, leakSite, halted>>
    /\ UNCHANGED <<xzIOVars, writeVars, closeVars>>
    /\ w' = StdoutAfterNew(w)

New ==
    \E lookOk, pipeOk, startOk \in BOOLEAN :
        Factory("blank", TRUE, lookOk, pipeOk, startOk)

NewWithContext ==
    \E c \in {"nil", "live", "canceled"} : \E lookOk, pipeOk, startOk \in BOOLEAN :
        Factory(c, FALSE, lookOk, pipeOk, startOk)

\* ------------------------------------------------------------------ Write
\* xz.pipe.Write(p) on a closed *os.File fails at once with os.ErrClosed.
WriteOnClosed == [n |-> 0, err |-> "ErrClosed"]

\* A Write that sends a byte of its own when p is empty.
Forwarded_PadsEmpty(p) == IF p = <<>> THEN <<0>> ELSE p

\* A Write that loses the first byte of p.
Forwarded_DropsFirst(p) == IF p = <<>> THEN p ELSE Tail(p)

\* Line 76: Write hands p to the pipe as it is.
Forwarded(p) == p

Write ==
    \E p \in SeqsUpTo(MaxWriteLen) :
        /\ pc = "idle" /\ reachable /\ ~halted
        /\ Len(asked) + Len(p) <= MaxTotal
        /\ wcall' = [len |-> Len(p), dead |-> (proc # "running")]
        /\ IF pipe = "closed"
           THEN /\ lastWrite' = WriteOnClosed
                /\ UNCHANGED <<pc, asked, wbuf, wn>>
           ELSE /\ pc' = "writing"
                /\ asked' = asked \o p
                /\ wbuf' = Forwarded(p)
                /\ wn' = 0
                /\ UNCHANGED lastWrite
        /\ UNCHANGED <<ctx, newVars, procVars, pipe, xzIOVars, written, guardVars,
                       closeVars>>
        /\ UNCHANGED w

\* A Write into a buffer that takes everything at once, whatever room the
\* pipe has.
Accept_Overfill(buf, room) == Len(buf)

\* How many bytes of buf the pipe write moves into the pipe when `room`
\* bytes are free: xz.pipe is the OS pipe itself, nothing is buffered in
\* between.
Accept(buf, room) == Min(room, Len(buf))

\* A Write that reports success whatever the pipe returned.
WriteReturn_SwallowErr(n, err) == [n |-> n, err |-> "nil"]

\* Line 76: Write returns the count and the error of xz.pipe.Write as they
\* are.
WriteReturn(n, err) == [n |-> n, err |-> err]

\* The pipe write in progress: it returns when every byte is accepted or
\* the read end is gone (EPIPE), and blocks while the pipe is full.
WriteStep ==
    /\ pc = "writing" /\ ~halted
    /\ IF wbuf = <<>>
       THEN /\ lastWrite' = WriteReturn(wn, "nil")
            /\ pc' = "idle"
            /\ wn' = 0
            /\ UNCHANGED <<asked, wbuf, written, pipeBuf, wcall>>
       ELSE IF proc # "running"
       THEN /\ lastWrite' = WriteReturn(wn, "EPIPE")
            /\ pc' = "idle"
            /\ wbuf' = <<>>
            /\ wn' = 0
            /\ UNCHANGED <<asked, written, pipeBuf, wcall>>
       ELSE /\ Len(pipeBuf) < PipeCap
            /\ LET k == Accept(wbuf, PipeCap - Len(pipeBuf)) IN
               /\ pipeBuf' = pipeBuf \o SubSeq(wbuf, 1, k)
               /\ written' = written \o SubSeq(wbuf, 1, k)
               /\ wbuf' = SubSeq(wbuf, k + 1, Len(wbuf))
               /\ wn' = wn + k
            /\ UNCHANGED <<pc, asked, lastWrite, wcall>>
    /\ UNCHANGED <<ctx, newVars, procVars, pipe, xzIn, dest, guardVars, closeVars>>
    /\ UNCHANGED w

\* ------------------------------------------------------------------ Close
\* A Close that leaves the finalizer in place.
deactivateSharpEdgedFinalizer_Kept == "set"

\* A Close that sets the finalizer again when it finds it cleared.
deactivateSharpEdgedFinalizer_Toggle ==
    IF finalizer = "set" THEN "none" ELSE "set"

\* Line 81: the finalizer is cleared before anything else.
deactivateSharpEdgedFinalizer == "none"

\* A Close that waits for the process before it closes the pipe.
AfterDeactivate_WaitFirst == "closeWait"

\* Lines 81-82: after the finalizer is cleared Close closes the pipe; the
\* wait of line 83 comes after it.
AfterDeactivate == "closePipe"

CloseCall ==
    /\ pc = "idle" /\ reachable /\ ~halted
    /\ closes < MaxCloses
    /\ finalizer' = deactivateSharpEdgedFinalizer
    /\ pc' = AfterDeactivate
    /\ didClosePipe' = FALSE
    /\ didWait' = FALSE
    /\ errPipe' = "none"
    /\ errWait' = "none"
    /\ openAtClose' = (pipe = "open")
    /\ ctxAtClose' = ctx
    /\ exitAtClose' = exit
    /\ UNCHANGED <<ctx, newVars, procVars, pipe, xzIOVars, writeVars, site,
                   reachable, leaks, leakSite, halted, firstErrPipe, result, closes>>
    /\ UNCHANGED w

\* A Close that never calls cmd.Wait.
AfterPipeClose_NoWait(e) == "closeRet"

\* A Close that returns errPipe at once when closing the pipe failed.
AfterPipeClose_EarlyReturn(e) == IF e # "nil" THEN "closeRet" ELSE "closeWait"

\* Where Close goes after pipe.Close returned errPipe: always on to cmd.Wait.
AfterPipeClose(e) == "closeWait"

\* Line 82.  Closing the open pipe releases the descriptor whether or not
\* the OS reports an error.  Closing it again returns the first result
\* (os/exec's closeOnce wrapper) or os.ErrClosed (a bare *os.File).
ClosePipe ==
    /\ pc = "closePipe" /\ ~halted
    /\ \E e \in (IF pipe = "open" THEN {"nil", "ErrPipeClose"}
                 ELSE {firstErrPipe, "ErrClosed"}) :
        /\ errPipe' = e
        /\ firstErrPipe' = IF pipe = "open" THEN e ELSE firstErrPipe
        /\ pc' = AfterPipeClose(e)
    /\ pipe' = "closed"
    /\ didClosePipe' = TRUE
    /\ UNCHANGED <<ctx, newVars, procVars, xzIOVars, writeVars, guardVars, errWait,
                   result, closes, didWait, openAtClose, ctxAtClose, exitAtClose>>
    /\ UNCHANGED w

\* What cmd.Wait returns for a process that ended as `x`.  A process that
\* exited 0 and was signalled by the context watcher afterwards yields nil
\* or ctx.Err(), depending on the os/exec in the build.
WaitErrors(x, sent) ==
    CASE x = "ok" -> IF sent THEN {"nil", "ErrCtx"} ELSE {"nil"}
      [] x = "fail" -> {"ExitError(status)"}
      [] x = "killed" -> {"ExitError(killed)"}
      [] OTHER -> {"ErrWait"}

\* Line 83.  cmd.Wait blocks until the process has ended and reaps it; a
\* second Wait fails at once.
CloseWait ==
    /\ pc = "closeWait" /\ ~halted
    /\ proc \in {"exited", "reaped"}
    /\ IF proc = "exited"
       THEN /\ \E e \in WaitErrors(exit, killSent) : errWait' = e
            /\ proc' = "reaped"
            /\ watcher' = "done"
       ELSE /\ errWait' = "ErrWaitTwice"
            /\ UNCHANGED <<proc, watcher>>
    /\ didWait' = TRUE
    /\ pc' = "closeRet"
    /\ UNCHANGED <<ctx, newVars, exit, killSent, pipe, xzIOVars, writeVars,
                   guardVars, errPipe, firstErrPipe, result, closes, didClosePipe,
                   openAtClose, ctxAtClose, exitAtClose>>
    /\ UNCHANGED w

\* A Close that drops the error of cmd.Wait.
CloseResult_Swallow(ePipe, eWait) == ePipe

\* A Close that prefers the error of cmd.Wait.
CloseResult_WaitFirst(ePipe, eWait) == IF eWait # "nil" THEN eWait ELSE ePipe

\* Lines 84-87.
CloseResult(ePipe, eWait) == IF ePipe # "nil" THEN ePipe ELSE eWait

\* A Close that closes the wrapped writer too.
StdoutAfterClose_Closes(d) == "closedByXZWriter"

\* Lines 80-88: Close closes xz.pipe and nothing else; w is not touched.
StdoutAfterClose(d) == d

CloseReturn ==
    /\ pc \in {"closeRet"} /\ ~halted
    /\ result' = CloseResult(errPipe, errWait)
    /\ closes' = closes + 1
    /\ pc' = "idle"
    /\ UNCHANGED <<ctx, newVars, procVars, pipe, xzIOVars, writeVars, guardVars,
                   errPipe, errWait, firstErrPipe, didClosePipe, didWait,
                   openAtClose, ctxAtClose, exitAtClose>>
    /\ w' = StdoutAfterClose(w)

\* --------------------------------------------------------- the xz process
\* xz reads one byte from its standard input and compresses it to w.
XzRead ==
    /\ proc = "running" /\ ~halted
    /\ pipeBuf # <<>>
    /\ xzIn' = Append(xzIn, Head(pipeBuf))
    /\ dest' = Emit(dest, Head(pipeBuf))
    /\ pipeBuf' = Tail(pipeBuf)
    /\ UNCHANGED <<pc, ctx, newVars, procVars, pipe, writeVars, guardVars, closeVars>>
    /\ UNCHANGED w

\* End of input: the write end is closed and the pipe is drained.  xz
\* finishes the stream and exits 0.
XzEOF ==
    /\ proc = "running" /\ ~halted
    /\ pipe = "closed" /\ pipeBuf = <<>>
    /\ dest' = Finish(dest)
    /\ proc' = "exited"
    /\ exit' = "ok"
    /\ UNCHANGED <<pc, ctx, newVars, watcher, killSent, pipe, pipeBuf, xzIn,
                   writeVars, guardVars, closeVars>>
    /\ UNCHANGED w

\* xz gives up on its own (an error writing to w, say) and exits non-zero.
XzFail ==
    /\ proc = "running" /\ ~halted
    /\ proc' = "exited"
    /\ exit' = "fail"
    /\ UNCHANGED <<pc, ctx, newVars, watcher, killSent, pipe, xzIOVars, writeVars,
                   guardVars, closeVars>>
    /\ UNCHANGED w

\* ----------------------------------------------------------- cancellation
\* The owner of the context cancels it (or its deadline passes).  The
\* context is followed until the caller is done with the XZWriter.
Cancel ==
    /\ ctx = "live" /\ ~halted
    /\ pc \notin {"start", "panicked", "done"}
    /\ ctx' = "canceled"
    /\ UNCHANGED <<pc, newVars, procVars, pipe, xzIOVars, writeVars, guardVars,
                   closeVars>>
    /\ UNCHANGED w

\* A cancellation that also closes the caller's end of the pipe.
PipeAfterKill_Closed(p) == "closed"

\* What the kill of exec.CommandContext touches of the writer's own state:
\* nothing; xz.pipe stays as it is.
PipeAfterKill(p) == p

\* The goroutine exec.CommandContext's Start runs: once the context is done
\* it calls Process.Kill, unless Wait has returned first.
WatchCtxKill ==
    /\ watcher = "watching" /\ ctx = "canceled" /\ ~halted
    /\ proc \in {"running", "exited"}
    /\ watcher' = "done"
    /\ IF proc = "running"
       THEN /\ proc' = "exited"
            /\ exit' = "killed"
            /\ UNCHANGED killSent
       ELSE /\ killSent' = TRUE
            /\ UNCHANGED <<proc, exit>>
    /\ pipe' = PipeAfterKill(pipe)
    /\ UNCHANGED <<pc, ctx, newVars, xzIOVars, writeVars, guardVars, closeVars>>
    /\ UNCHANGED w

\* The caller, done with the XZWriter after its Close, closes its own writer
\* w and makes no further call.
CloseDest ==
    /\ pc = "idle" /\ closes > 0 /\ reachable /\ ~halted
    /\ w = "open"
    /\ w' = "closedByCaller"
    /\ pc' = "done"
    /\ UNCHANGED <<ctx, newVars, procVars, pipe, xzIOVars, writeVars,
                   guardVars, closeVars>>

\* ------------------------------------------------------ abandonment watch
\* The caller lets go of its last reference to the XZWriter.
Drop ==
    /\ pc \in {"idle", "writing"} /\ reachable /\ ~halted
    /\ reachable' = FALSE
    /\ UNCHANGED <<pc, ctx, newVars, procVars, pipe, xzIOVars, writeVars,
                   finalizer, site, leaks, leakSite, halted, closeVars>>
    /\ UNCHANGED w

\* The message of the panic in the finalizer closure (line 98).
LeakMessage(s) == s

\* The collector finds the XZWriter unreachable with its finalizer set and
\* runs it: the closure panics, which ends the program.
GCFinalize ==
    /\ ~reachable /\ finalizer = "set" /\ ~halted
    /\ finalizer' = "none"
    /\ leaks' = leaks + 1
    /\ leakSite' = LeakMessage(site)
    /\ halted' = TRUE
    /\ UNCHANGED <<pc, ctx, newVars, procVars, pipe, xzIOVars, writeVars, site,
                   reachable, closeVars>>
    /\ UNCHANGED w

\* ------------------------------------------------------------------- Spec
Next ==
    \/ New
    \/ NewWithContext
    \/ Write
    \/ WriteStep
    \/ CloseCall
    \/ ClosePipe
    \/ CloseWait
    \/ CloseReturn
    \/ XzRead
    \/ XzEOF
    \/ XzFail
    \/ Cancel
    \/ WatchCtxKill
    \/ Drop
    \/ GCFinalize
    \/ CloseDest

Spec == Init /\ [][Next]_vars

\* Every call in progress, xz, the context goroutine and the collector keep
\* running; what the caller and the owner of the context choose to do
\* (Write, Close, Drop, Cancel) and a failure of xz are not forced.
Fairness ==
    /\ WF_vars(WriteStep)
    /\ WF_vars(ClosePipe)
    /\ WF_vars(CloseWait)
    /\ WF_vars(CloseReturn)
    /\ WF_vars(XzRead)
    /\ WF_vars(XzEOF)
    /\ WF_vars(WatchCtxKill)
    /\ WF_vars(GCFinalize)

FairSpec == Spec /\ Fairness

TypeOK ==
    /\ pc \in {"start", "failed", "panicked", "idle", "writing", "closePipe",
               "closeWait", "closeRet", "done"}
    /\ ctx \in {"none", "nil", "blank", "live", "canceled"}
    /\ proc \in {"none", "running", "exited", "reaped"}
    /\ exit \in {"none", "ok", "fail", "killed"}
    /\ watcher \in {"none", "watching", "done"}
    /\ pipe \in {"none", "open", "closed"}
    /\ Len(pipeBuf) <= PipeCap
    /\ Len(asked) <= MaxTotal
    /\ Len(written) <= Len(asked)
    /\ finalizer \in {"none", "set"}
    /\ closes \in 0 .. MaxCloses
    /\ leaks \in 0 .. 1
    /\ w \in {"open", "closedByCaller", "closedByXZWriter"}

\* ================================================================= claims
Created == pc \in {"idle", "writing", "closePipe", "closeWait", "closeRet",
                   "done"}
InClose == pc \in {"closePipe", "closeWait", "closeRet"}
CloseEntered == InClose \/ closes > 0
Returned == pc = "idle" /\ closes > 0

\* C1: every Close closes the pipe and calls cmd.Wait, whatever closing the
\* pipe returned: Close is at its return statement, or has returned, only
\* with both calls made, the pipe closed and the process reaped; and it is
\* never waiting with the pipe still to be closed.
C1_BothCleanupSteps ==
    /\ (pc = "closeWait" => (didClosePipe /\ pipe = "closed"))
    /\ ((pc = "closeRet" \/ Returned) =>
           (/\ didClosePipe
            /\ pipe = "closed"
            /\ didWait
            /\ proc = "reaped"
            /\ errWait # "none"))

\* A first Close has returned after closing the pipe failed, and it waited.
C1_Witness ==
    /\ Returned /\ closes = 1 /\ openAtClose
    /\ errPipe = "ErrPipeClose"
    /\ didWait /\ proc = "reaped"

\* C2: Close returns errPipe when closing the pipe failed (also when
\* cmd.Wait failed too), otherwise errWait when cmd.Wait failed, otherwise
\* nil.
C2_ResultPriority ==
    Returned =>
        /\ errPipe # "none"
        /\ errWait # "none"
        /\ (errPipe # "nil" => result = errPipe)
        /\ (errPipe = "nil" /\ errWait # "nil" => result = errWait)
        /\ (errPipe = "nil" /\ errWait = "nil" => result = "nil")

\* Both calls failed and Close returned the error of the pipe.
C2_Witness ==
    /\ Returned /\ closes = 1
    /\ errPipe = "ErrPipeClose" /\ errWait = "ExitError(killed)"
    /\ result = "ErrPipeClose"

\* C3: Close clears the finalizer before it closes the pipe and before it
\* waits, and from the moment Close has been entered the finalizer is never
\* set again and never runs, whatever Close returns.
C3_GuardOffFirst ==
    CloseEntered => finalizer = "none" /\ leaks = 0 /\ ~halted

\* Close returned an error, the writer was dropped afterwards, and nothing
\* fired.
C3_Witness ==
    /\ Returned /\ result = "ExitError(status)"
    /\ ~reachable /\ leaks = 0

\* A first Close that was called with the context already canceled, on a
\* writer created while the context was live.
CanceledBeforeClose == ctxAtNew = "live" /\ ctxAtClose = "canceled"

\* C4 (as stated): when the context is canceled after the writer was
\* created and before Close is called, the process is terminated and Close
\* returns the error of cmd.Wait that wraps the abnormal exit.
C4_Original ==
    (Returned /\ closes = 1 /\ CanceledBeforeClose) =>
        /\ proc = "reaped"
        /\ result \in {"ExitError(killed)", "ExitError(status)"}

\* C4 (amended): when the context is canceled after the writer was created
\* and before Close is called, that Close returns, with the process ended
\* and reaped; and if the cancellation killed the process, Close returns a
\* non-nil error: errPipe if closing the pipe failed, otherwise the error of
\* cmd.Wait that wraps the kill.
C4_Amended ==
    /\ []((Returned /\ closes = 1 /\ CanceledBeforeClose) =>
            (proc = "reaped" /\ exit # "none"))
    /\ []((Returned /\ closes = 1 /\ CanceledBeforeClose /\ exit = "killed") =>
            (/\ result # "nil"
             /\ (errPipe = "nil" => result = "ExitError(killed)")
             /\ (errPipe # "nil" => result = errPipe)))
    /\ ((InClose /\ closes = 0 /\ CanceledBeforeClose) ~> Returned)

\* Canceled, killed, then closed: Close returned the error wrapping the kill.
C4_Witness ==
    /\ Returned /\ closes = 1 /\ CanceledBeforeClose
    /\ exitAtClose = "killed"
    /\ result = "ExitError(killed)"

\* C5 (as stated): a factory called with an already canceled context
\* creates a writer, and Close on it returns a non-nil error and leaves no
\* process running.
C5_Original ==
    (ctxAtNew = "canceled" /\ pc # "start") =>
        /\ Created
        /\ newErr = "nil"
        /\ (Returned => (result # "nil" /\ proc # "running"))

\* C5 (amended): a factory called with an already canceled context fails:
\* it returns no writer and an error (ctx.Err() from cmd.Start, unless
\* creating the pipe or finding the executable failed first), no process
\* was started, no finalizer is set, and there is nothing to Close.
C5_Amended ==
    (ctxAtNew = "canceled" /\ pc # "start") =>
        /\ pc = "failed"
        /\ newErr \in {"ErrStdinPipe", "ErrNotFound", "ErrCtx"}
        /\ ((newIn.pipeOk /\ newIn.lookOk) => newErr = "ErrCtx")
        /\ proc = "none" /\ watcher = "none"
        /\ pipe = "none"
        /\ finalizer = "none" /\ ~reachable
        /\ closes = 0

\* The executable is there and the pipe was created: Start refused.
C5_Witness ==
    /\ ctxAtNew = "canceled" /\ pc = "failed"
    /\ newIn.pipeOk /\ newIn.lookOk /\ newIn.startOk
    /\ newErr = "ErrCtx"

\* C6: when the executable is not found or the pipe cannot be created, the
\* factory fails: it returns an error and no writer; and after any failed
\* creation no process exists.
C6_FailedCreation ==
    /\ ((pc # "start" /\ ctxAtNew # "nil" /\ (~newIn.lookOk \/ ~newIn.pipeOk)) =>
           (/\ pc = "failed"
            /\ newErr \in {"ErrStdinPipe", "ErrNotFound"}
            /\ ~reachable))
    /\ (pc = "failed" =>
           (/\ newErr \notin {"nil", "none"}
            /\ proc = "none" /\ exit = "none" /\ watcher = "none"
            /\ ~reachable))

\* The executable was not found (the pipe had been created).
C6_Witness ==
    /\ pc = "failed" /\ ~newIn.lookOk /\ newIn.pipeOk
    /\ newErr = "ErrNotFound" /\ proc = "none"

\* The writer was created, never closed, and the caller has let go of it.
Abandoned == Created /\ ~reachable /\ closes = 0 /\ ~InClose

\* C7: a writer that is dropped without Close ever being called eventually
\* makes the finalizer panic, exactly once, and the panic names the site
\* that called the factory.
C7_LeakExactlyOnce ==
    /\ [](leaks <= 1)
    /\ [][leaks' >= leaks]_vars
    /\ [](leaks = 1 => (leakSite = "caller" /\ closes = 0 /\ halted))
    /\ (Abandoned ~> (leaks = 1))

\* The finalizer has fired for a writer made by New.
C7_Witness == leaks = 1 /\ viaNew /\ leakSite = "caller" /\ ~reachable

Open == pipe = "open" /\ finalizer = "set"
Released == pipe = "closed" /\ finalizer = "none"
Quiescent == Created /\ pc = "idle" /\ ~halted

\* C8: while the program runs and no call on the writer is in progress,
\* the writer is open (the pipe open, the finalizer set) or released (the
\* pipe closed, the finalizer unset), never both or neither: open until
\* Close is called, released once Close has returned; a Write is refused
\* with os.ErrClosed exactly when the writer is released; and a released
\* writer stays released.
C8_OpenOrReleased ==
    /\ [](Quiescent => (Open # Released))
    /\ [](Quiescent => ((closes = 0) <=> Open))
    /\ [](Quiescent => ((closes > 0) <=> Released))
    /\ [][(Quiescent /\ lastWrite' # lastWrite) =>
            ((lastWrite'.err = "ErrClosed") <=> Released)]_vars
    /\ [][(Quiescent /\ pc' = "writing") => Open]_vars
    /\ [][Released => Released']_vars

\* A released writer has refused a Write.
C8_Witness ==
    /\ Quiescent /\ Released /\ closes = 1
    /\ lastWrite.err = "ErrClosed"

\* C9: canceling the context and the kill that follows leave the writer's
\* own state alone: the finalizer stays set and the caller's end of the
\* pipe stays open until Close is called, so a writer that is canceled and
\* then dropped without Close still makes the finalizer panic.  The kill
\* itself follows the cancel while the program runs.
C9_CancelAdvisory ==
    /\ ((ctx = "canceled" /\ proc = "running") ~> (proc # "running" \/ halted))
    /\ [][(ctx = "live" /\ ctx' = "canceled") =>
            UNCHANGED <<pc, pipe, finalizer, site, reachable, proc, closes>>]_vars
    /\ [][(exit # "killed" /\ exit' = "killed") =>
            (UNCHANGED <<pc, pipe, finalizer, site, reachable, closes>> /\ proc' = "exited")]_vars
    /\ []((exit = "killed" /\ closes = 0 /\ ~InClose /\ ~halted) => Open)
    /\ ((exit = "killed" /\ Abandoned) ~> (leaks = 1))

\* Canceled, killed, dropped without Close: the finalizer fired.
C9_Witness ==
    /\ ctx = "canceled" /\ exit = "killed"
    /\ closes = 0 /\ leaks = 1 /\ pipe = "open"

\* C10: when Close has returned, the context was not canceled and xz did
\* not fail on its own, w holds exactly the compressed form of all the
\* bytes passed to Write, in order, however they were split into calls;
\* decompressing w gives those bytes back.
C10_RoundTrip ==
    (Returned /\ ctx # "canceled" /\ exit # "fail") =>
        /\ exit = "ok"
        /\ written = asked
        /\ xzIn = asked
        /\ dest = Compress(asked)
        /\ Decompress(dest) = [ok |-> TRUE, data |-> asked]

\* Two bytes written in two calls came out compressed.
C10_Witness ==
    /\ Returned /\ ctx # "canceled" /\ result = "nil"
    /\ Len(asked) = MaxTotal
    /\ lastWrite.n >= 1 /\ lastWrite.n < Len(asked)
    /\ dest = Compress(asked)

\* What a Write must leave alone apart from its own bytes: the caller's
\* end of the pipe, the process, the finalizer.
WriteFrame == UNCHANGED <<pipe, proc, exit, watcher, finalizer, site, closes>>

\* A Write of no bytes changes nothing that holds data either.
ZeroWriteFrame == WriteFrame /\ UNCHANGED <<pipeBuf, xzIn, dest, asked, written>>

\* The last Write call has returned.
WriteReturned == Created /\ pc = "idle" /\ lastWrite.err # "none"

\* C11 (as stated): in every state of the writer a Write of no bytes
\* returns 0 and no error.
C11_Original ==
    (WriteReturned /\ wcall.len = 0) => lastWrite = [n |-> 0, err |-> "nil"]

\* C11 (amended): until Close is called, a Write of no bytes returns 0 and
\* nil, also when the process has already ended, and it does not block;
\* once the pipe is closed it returns 0 and os.ErrClosed.  In both cases it
\* leaves the pipe, its contents, w, the process and the finalizer as they
\* were.
C11_Amended ==
    /\ []((WriteReturned /\ wcall.len = 0) =>
            (/\ lastWrite.n = 0
             /\ lastWrite.err \in {"nil", "ErrClosed"}
             /\ (closes = 0 => lastWrite.err = "nil")))
    /\ []((pc = "writing" /\ wcall.len = 0 /\ ~halted) => ENABLED WriteStep)
    /\ [][(pc = "idle" /\ pc' = "writing" /\ wcall'.len = 0) =>
            (pipe = "open" /\ ZeroWriteFrame)]_vars
    /\ [][(pc = "writing" /\ pc' = "idle" /\ wcall.len = 0) =>
            (lastWrite' = [n |-> 0, err |-> "nil"] /\ ZeroWriteFrame)]_vars
    /\ [][(pc = "idle" /\ pc' = "idle" /\ wcall'.len = 0
           /\ (lastWrite' # lastWrite \/ wcall' # wcall)) =>
            (/\ pipe = "closed"
             /\ lastWrite' = [n |-> 0, err |-> "ErrClosed"]
             /\ ZeroWriteFrame)]_vars

\* A Write of no bytes, called before any Close and after the process had
\* ended, returned 0 and nil.
C11_Witness ==
    /\ WriteReturned /\ closes = 0
    /\ wcall = [len |-> 0, dead |-> TRUE]
    /\ lastWrite = [n |-> 0, err |-> "nil"]

\* A step of a Write: the call, bytes going into the pipe, or the return.
WriteActs ==
    /\ pc \in {"idle", "writing"} /\ pc' \in {"idle", "writing"}
    /\ (pc' # pc \/ wbuf' # wbuf \/ lastWrite' # lastWrite \/ wcall' # wcall)

\* C12 (as stated): a Write made when the process has ended returns an
\* error.
C12_Original ==
    (WriteReturned /\ wcall.dead) => lastWrite.err # "nil"

\* C12 (amended): Write returns the count and the error of the pipe write
\* as they are: every byte accepted and nil, or the bytes accepted so far
\* and EPIPE when the process has ended with bytes still to go, or 0 and
\* os.ErrClosed on the closed pipe.  A Write of at least one byte made when
\* the process has ended returns 0 and an error; a Write never stays blocked
\* once the process has ended; and no step of a Write touches the
\* finalizer, the caller's end of the pipe or the process.
C12_Amended ==
    /\ [][(pc = "writing" /\ pc' = "idle") =>
            (/\ lastWrite'.n = wn
             /\ (wbuf = <<>> => (lastWrite'.err = "nil" /\ wn = wcall.len))
             /\ (wbuf # <<>> => (lastWrite'.err = "EPIPE" /\ proc # "running")))]_vars
    /\ [][(pc = "idle" /\ pc' = "idle" /\ (lastWrite' # lastWrite \/ wcall' # wcall)) =>
            (pipe = "closed" /\ lastWrite' = [n |-> 0, err |-> "ErrClosed"])]_vars
    /\ []((WriteReturned /\ wcall.dead /\ wcall.len > 0) =>
            (lastWrite.n = 0 /\ lastWrite.err \in {"EPIPE", "ErrClosed"}))
    /\ [][WriteActs => WriteFrame]_vars
    /\ ((pc = "writing" /\ proc # "running") ~> (pc # "writing" \/ halted))

\* The context was canceled, the process killed, and a Write of one byte or
\* more then failed with EPIPE; the finalizer is still set and the process
\* not reaped.
C12_Witness ==
    /\ WriteReturned /\ wcall.dead /\ wcall.len > 0
    /\ lastWrite = [n |-> 0, err |-> "EPIPE"]
    /\ exit = "killed" /\ proc = "exited"
    /\ finalizer = "set"

\* C13: Close returns only after the process has ended and has been
\* reaped: a process still running keeps cmd.Wait from returning, and when
\* Close is at its return statement or has returned, with or without an
\* error, the process is reaped and its exit is known.
C13_ReapedOnReturn ==
    /\ []((pc = "closeWait" /\ proc = "running") => ~ENABLED CloseWait)
    /\ [][(pc = "closeWait" /\ pc' # "closeWait") => proc' = "reaped"]_vars
    /\ []((pc = "closeRet" \/ Returned) =>
            (proc = "reaped" /\ exit \in {"ok", "fail", "killed"}))
    /\ [][(InClose /\ pc' = "idle") => (proc = "reaped" /\ proc' = "reaped")]_vars

\* Close returned nil after waiting for a process that was still running
\* when Close was called.
C13_Witness ==
    /\ Returned /\ closes = 1
    /\ exitAtClose = "none" /\ result = "nil"
    /\ proc = "reaped" /\ exit = "ok"

\* A Write is blocked: bytes still to go, the pipe full, xz alive.
Blocked ==
    /\ pc = "writing" /\ ~halted
    /\ wbuf # <<>>
    /\ proc = "running"
    /\ Len(pipeBuf) >= PipeCap

\* C14: the pipe never holds more than its capacity; the bytes it accepted
\* are exactly the bytes xz has read followed by the bytes still in the
\* pipe; a Write with bytes to go and the pipe full cannot proceed and
\* stays as it is until xz reads (or ends); and a Write returns nil only
\* with every byte of p accepted.
C14_Backpressure ==
    /\ [](Len(pipeBuf) <= PipeCap)
    /\ [](written = xzIn \o pipeBuf)
    /\ [](Blocked => ~ENABLED WriteStep)
    /\ [][Blocked => (pc' = "writing" /\ wbuf' = wbuf /\ wn' = wn
                      /\ written' = written /\ lastWrite' = lastWrite)]_vars
    /\ [][(Blocked /\ ~Blocked') =>
            (Len(pipeBuf') < Len(pipeBuf) \/ proc' # "running" \/ halted')]_vars
    /\ [][(pc = "writing" /\ pc' = "idle" /\ lastWrite'.err = "nil") =>
            (wbuf = <<>> /\ wn = wcall.len /\ lastWrite'.n = wcall.len)]_vars

\* A Write of more bytes than the pipe holds is blocked with part of p
\* accepted.
C14_Witness ==
    /\ Blocked
    /\ wn >= 1 /\ wn < wcall.len
    /\ Len(pipeBuf) = PipeCap

\* C15: nothing the XZWriter does closes w: through a creation, failed or
\* not, every Write, every Close and every cancellation w stays open, it is
\* open when Close returns, and it is closed only by the caller itself.
C15_DestinationBorrowed ==
    /\ [](w # "closedByXZWriter")
    /\ [](closes = 0 => w = "open")
    /\ [][(pc = "closeRet" /\ pc' = "idle") =>
            (w' = w /\ (closes = 0 => w' = "open"))]_vars
    /\ [][(pc' \in {"failed", "idle", "writing", "closePipe", "closeWait",
                     "closeRet"}
           \/ ctx' # ctx \/ proc' # proc \/ pipe' # pipe
           \/ lastWrite' # lastWrite \/ wcall' # wcall) => w' = w]_vars
    /\ [][w' # w => (Returned /\ w' = "closedByCaller")]_vars

\* Close has returned after a Write and w, holding the compressed bytes, is
\* still open.
C15_Witness ==
    /\ Returned /\ result = "nil"
    /\ Len(asked) > 0 /\ dest = Compress(asked)
    /\ w = "open"

\* C16: while the context is not canceled a Close that has been entered
\* returns.  Close is never waiting for the process with the pipe still
\* open; xz sees the end of its input only when the pipe is closed and
\* every byte written has been read, and it exits with the whole compressed
\* stream on w; the wait of a first Close ends only on a process that has
\* exited.
C16_CloseReturns ==
    /\ ((InClose /\ ctx # "canceled") ~> (pc = "idle" \/ ctx = "canceled"))
    /\ [](pc = "closeWait" => (pipe = "closed" /\ didClosePipe))
    /\ [][(exit # "ok" /\ exit' = "ok") =>
            (/\ pipe = "closed" /\ pipeBuf = <<>>
             /\ xzIn = written
             /\ dest' = Compress(written))]_vars
    /\ [][(pc = "closeWait" /\ pc' # "closeWait") =>
            (/\ pc' = "closeRet"
             /\ proc # "running"
             /\ closes = 0 => (proc = "exited" /\ proc' = "reaped"))]_vars

\* Close was called on a running xz with bytes written and no cancellation,
\* waited, and has returned after xz exited on its own.
C16_Witness ==
    /\ Returned /\ closes = 1
    /\ ctx # "canceled" /\ ctxAtClose # "canceled"
    /\ exitAtClose = "none" /\ exit = "ok"
    /\ written # <<>> /\ xzIn = written
    /\ errWait = "nil"

PackageFrames == {"activateSharpEdgedFinalizer", "NewWithContext", "New"}

\* C17: the site the finalizer records is the frame that called the public
\* factory, whichever factory it was: through New one frame more is skipped
\* than through NewWithContext directly, and the site recorded, and later
\* named by the panic, is never a frame of the package.
C17_CreationSite ==
    /\ Created =>
        /\ site = "caller"
        /\ site \notin PackageFrames
        /\ viaNew <=> calledByNew(ctxAtNew)
        /\ Skip(ctxAtNew) = (IF viaNew THEN 3 ELSE 2)
        /\ site = Caller(Stack(viaNew), Skip(ctxAtNew))
        /\ Caller(Stack(viaNew), Skip(ctxAtNew) - 1) \in PackageFrames
    /\ ~Created => site = "none"
    /\ leaks = 1 => leakSite \notin PackageFrames

\* A writer made by New, its finalizer set on the frame that called New.
C17_Witness ==
    /\ Created /\ viaNew /\ closes = 0
    /\ finalizer = "set" /\ site = "caller"
    /\ Skip(ctxAtNew) = 3

\* C18: the finalizer is set only by a creation whose process was started:
\* a creation that failed at the pipe or at the start leaves no finalizer
\* and no recorded site, the collector has nothing to run for it, and a
\* panic of the finalizer is only ever seen after a successful creation.
C18_GuardAfterStart ==
    /\ pc = "failed" =>
        /\ finalizer = "none" /\ site = "none"
        /\ leaks = 0 /\ ~halted
        /\ ~ENABLED GCFinalize
    /\ finalizer = "set" =>
        /\ newErr = "nil" /\ proc # "none"
        /\ newIn.lookOk /\ newIn.pipeOk /\ newIn.startOk
    /\ leaks > 0 => (newErr = "nil" /\ Created)

\* The pipe was made and xz was found, but the start failed: the writer the
\* factory dropped has no finalizer.
C18_Witness ==
    /\ pc = "failed" /\ ~reachable
    /\ newIn.lookOk /\ newIn.pipeOk /\ ~newIn.startOk
    /\ finalizer = "none" /\ leaks = 0

\* C19: once a Close has returned, a further Close goes through without
\* blocking: each of its steps can be taken as soon as it is reached.  It
\* leaves the process reaped, starts and kills nothing, leaves the pipe
\* closed and the finalizer cleared, writes nothing to xz or to w, and
\* returns an error: what closing the pipe again gave, else the error of
\* the second cmd.Wait.
C19_SecondClose ==
    /\ [](closes >= 1 =>
            (/\ proc = "reaped" /\ pipe = "closed" /\ finalizer = "none"
             /\ leaks = 0 /\ ~halted /\ ~ENABLED GCFinalize))
    /\ []((closes >= 1 /\ pc = "closePipe") => ENABLED ClosePipe)
    /\ []((closes >= 1 /\ pc = "closeWait") => ENABLED CloseWait)
    /\ []((closes >= 1 /\ pc = "closeRet") => ENABLED CloseReturn)
    /\ [][closes >= 1 =>
            UNCHANGED <<proc, exit, watcher, killSent, pipe, finalizer, site,
                        leaks, pipeBuf, xzIn, dest, written>>]_vars
    /\ [][(closes >= 1 /\ pc = "closeRet" /\ pc' = "idle") =>
            (/\ closes' = closes + 1
             /\ errWait = "ErrWaitTwice"
             /\ errPipe \in {firstErrPipe, "ErrClosed"}
             /\ result' = (IF errPipe # "nil" THEN errPipe ELSE "ErrWaitTwice")
             /\ result' # "nil")]_vars

\* Close has returned twice on a writer whose first Close succeeded.
C19_Witness ==
    /\ pc = "idle" /\ closes = 2
    /\ firstErrPipe = "nil" /\ errWait = "ErrWaitTwice"
    /\ proc = "reaped" /\ finalizer = "none"

====
